---- MODULE Spec2Model ----
\* Node-side volume lifecycle of the CSI node service (CSINodeService):
\* NodeStageVolume, NodeUnstageVolume, NodePublishVolume, NodeUnpublishVolume,
\* the ephemeral (inline) create/delete round trip through the persistence
\* collaborator, and the mount helpers they share.  Requests run concurrently;
\* every step below is one atomic access to shared state (the volume cache,
\* the mount table, the persistence collaborator, the request lock).
EXTENDS Naturals, Sequences, FiniteSets

\* ---------------------------------------------------------------- universe

\* Workloads; a workload's target path is determined by the workload.
Pods == {"podA", "podB"}
\* The orchestrator keeps one call in flight for each workload; the calls of
\* different workloads are handled concurrently.  A request is named by the
\* workload it is made for.
Reqs == Pods
\* Volume ids the orchestrator addresses.
Vols == {"v1"}
NoReq == "none"

\* Largest number of mounts stacked on one staging path that is tracked.
MaxStack == 2

\* apiV1 lifecycle statuses
Creating == "Creating"
Created == "Created"
VolumeReady == "VolumeReady"
Published == "Published"
Failed == "Failed"
Removing == "Removing"
Removed == "Removed"

\* gRPC codes of the responses.  A plain Go error (fmt.Errorf, or an error of
\* a collaborator handed back as it is) carries no status code: Unknown.
OK == "OK"
InvalidArgument == "InvalidArgument"
NotFound == "NotFound"
Internal == "Internal"
Unknown == "Unknown"

VARIABLES
    volumesCache,   \* volume id -> cache entry (VolumeManager's volume cache)
    staged,         \* volume id -> number of mounts on its staging path
    published,      \* volume id -> workloads whose target path holds a mount
    records,        \* volume id -> record held by the persistence collaborator
    reqMu,          \* holder of CSINodeService.reqMu, or NoReq
    req,            \* workload -> its request in flight and the position reached
    resp,           \* the response sent by the last step, if it sent one
    dCacheMu,       \* holder of VolumeManager.dCacheMu, or NoReq
    part            \* a call of constructPartition on its own: input and result

vars == <<volumesCache, staged, published, records, reqMu, req, resp, dCacheMu, part>>

\* ------------------------------------------------------------- data shapes

AbsentVolume ==
    [present |-> FALSE, CSIStatus |-> "", Owners |-> <<>>, Ephemeral |-> FALSE]

CachedVolume(st, eph) ==
    [present |-> TRUE, CSIStatus |-> st, Owners |-> <<>>, Ephemeral |-> eph]

NoRecord == [status |-> "None", Ephemeral |-> FALSE]

IdleReq ==
    [pc |-> "done", op |-> "", vol |-> "", inline |-> FALSE,
     called |-> FALSE, mutated |-> FALSE, hadMount |-> FALSE, trail |-> <<>>]

NoResp ==
    [op |-> "", vol |-> "", fields |-> "", inline |-> FALSE, code |-> "",
     called |-> FALSE, mutated |-> FALSE, calls |-> <<>>]

\* ------------------------------------------------------ VolumeManager cache

\* v, ok := s.getFromVolumeCache(id)
getFromVolumeCache(cache, id) == cache[id]

\* s.setVolumeStatus(id, st): an id that is not cached is logged and skipped.
setVolumeStatus(cache, id, st) ==
    IF cache[id].present
    THEN [cache EXCEPT ![id].CSIStatus = st]
    ELSE cache

ContainsString(s, x) == \E i \in 1..Len(s) : s[i] = x

\* s.addVolumeOwner(id, pod): appends the workload unless it is already there.
addVolumeOwner(cache, id, pod) ==
    IF cache[id].present /\ ~ContainsString(cache[id].Owners, pod)
    THEN [cache EXCEPT ![id].Owners = Append(@, pod)]
    ELSE cache

\* s.clearVolumeOwners(id)
clearVolumeOwners(cache, id) ==
    IF cache[id].present
    THEN [cache EXCEPT ![id].Owners = <<>>]
    ELSE cache

\* ------------------------------------------------------------ mount helpers

\* A slip in prepareAndPerformMount: the target path is left behind when the
\* probe or the mount fails.
prepareAndPerformMountLeaky(createOK, probeOK, mounted, mountOK, bind) ==
    LET opts == IF bind THEN "Mount--bind" ELSE "Mount"
    IN  IF ~createOK
        THEN [err |-> TRUE, added |-> FALSE, calls |-> <<"CreateTargetPath">>]
        ELSE IF ~probeOK
        THEN [err |-> TRUE, added |-> FALSE,
              calls |-> <<"CreateTargetPath", "IsMountPoint">>]
        ELSE IF mounted
        THEN [err |-> FALSE, added |-> FALSE,
              calls |-> <<"CreateTargetPath", "IsMountPoint">>]
        ELSE IF ~mountOK
        THEN [err |-> TRUE, added |-> FALSE,
              calls |-> <<"CreateTargetPath", "IsMountPoint", opts>>]
        ELSE [err |-> FALSE, added |-> TRUE,
              calls |-> <<"CreateTargetPath", "IsMountPoint", opts>>]

\* prepareAndPerformMount(src, target, scImpl, bind).  The outcomes of the
\* mount-strategy collaborator are the parameters: createOK (CreateTargetPath),
\* probeOK (IsMountPoint returned no error), mounted (what the probe saw),
\* mountOK (Mount).  The result names the calls issued in order, whether an
\* error is returned and whether a mount was added.
prepareAndPerformMount(createOK, probeOK, mounted, mountOK, bind) ==
    LET opts == IF bind THEN "Mount--bind" ELSE "Mount"
    IN  IF ~createOK
        THEN [err |-> TRUE, added |-> FALSE, calls |-> <<"CreateTargetPath">>]
        ELSE IF ~probeOK
        THEN [err |-> TRUE, added |-> FALSE,
              calls |-> <<"CreateTargetPath", "IsMountPoint", "DeleteTargetPath">>]
        ELSE IF mounted
        THEN [err |-> FALSE, added |-> FALSE,
              calls |-> <<"CreateTargetPath", "IsMountPoint">>]
        ELSE IF ~mountOK
        THEN [err |-> TRUE, added |-> FALSE,
              calls |-> <<"CreateTargetPath", "IsMountPoint", opts, "DeleteTargetPath">>]
        ELSE [err |-> FALSE, added |-> TRUE,
              calls |-> <<"CreateTargetPath", "IsMountPoint", opts>>]

\* unmount(storageClass, path): any Unmount error becomes an Internal status.
unmount(unmountOK) == IF unmountOK THEN OK ELSE Internal

\* ------------------------------------------------------ constructPartition

\* apiV1 storage classes: two plain-drive classes and two backed by a volume
\* group.  SSDLVG names its group through an LVG record.
StorageClasses == {"HDD", "SSD", "HDDLVG", "SSDLVG"}

\* Values of Volume.Location: drive uuids and LVG record names.
Locations == {"loc1", "loc2"}

\* k8sclient.GetVGNameByLVGCRName: the group name held by the LVG record.
GetVGNameByLVGCRName(location) == <<"vg-of", location>>

\* linuxUtils.SearchDrivePath: the block device of a drive.
SearchDrivePath(drive) == <<"/dev", drive>>

\* util.GetVolumeUUID(id)
GetVolumeUUID(id) == <<"uuid-of", id>>

\* linuxUtils.GetPartitionUUID: the uuid of the partition found on a device.
GetPartitionUUID(bdev) == <<"uuid-on", bdev>>

\* linuxUtils.GetPartitionNameByUUID
GetPartitionNameByUUID(bdev, uuid) == <<bdev, uuid>>

\* A slip in the class test: no class has its group name translated.
NeedsTranslationNever(class) == FALSE

\* Whether the group of the class is named through an LVG record (line 413).
NeedsTranslation(class) == class = "SSDLVG"

\* A slip in the reading of the drive cache: every location has a drive.
drivesCacheGetAny(drives, location) == location

\* s.drivesCache[volume.Location] (line 424): the drive, "nil" with none.
drivesCacheGet(drives, location) == IF location \in drives THEN location ELSE "nil"

\* The result of constructPartition: the path ("" with an error), the code of
\* the error (OK with none), the collaborator calls made in order and whether
\* the drive cache was read under dCacheMu.
Resolution(path, code, calls, locked) ==
    [path |-> path, code |-> code, calls |-> calls, locked |-> locked]

\* constructPartition(volume) (lines 404-451).  drives are the keys of the drive
\* cache; vgOK, searchOK, uuidOK and nameOK tell whether the call to
\* GetVGNameByLVGCRName, SearchDrivePath, GetPartitionUUID and
\* GetPartitionNameByUUID succeeds.
constructPartition(volume, drives, vgOK, searchOK, uuidOK, nameOK) ==
    IF volume.StorageClass \in {"HDDLVG", "SSDLVG"}
    THEN IF NeedsTranslation(volume.StorageClass)
         THEN IF ~vgOK
              THEN Resolution("", Unknown, <<"GetVGNameByLVGCRName">>, FALSE)
              ELSE Resolution(<<"/dev", GetVGNameByLVGCRName(volume.Location), volume.Id>>,
                              OK, <<"GetVGNameByLVGCRName">>, FALSE)
         ELSE Resolution(<<"/dev", volume.Location, volume.Id>>, OK, <<>>, FALSE)
    ELSE IF drivesCacheGet(drives, volume.Location) = "nil"
    THEN Resolution("", Unknown, <<>>, TRUE)
    ELSE LET bdev == SearchDrivePath(drivesCacheGet(drives, volume.Location))
         IN  IF ~searchOK
             THEN Resolution("", Internal, <<"SearchDrivePath">>, TRUE)
             ELSE IF volume.Ephemeral
             THEN IF ~uuidOK
                  THEN Resolution("", Internal,
                                  <<"SearchDrivePath", "GetPartitionUUID">>, TRUE)
                  ELSE IF ~nameOK
                  THEN Resolution("", Unknown,
                                  <<"SearchDrivePath", "GetPartitionUUID",
                                    "GetPartitionNameByUUID">>, TRUE)
                  ELSE Resolution(GetPartitionNameByUUID(bdev, GetPartitionUUID(bdev)), OK,
                                  <<"SearchDrivePath", "GetPartitionUUID",
                                    "GetPartitionNameByUUID">>, TRUE)
             ELSE IF ~nameOK
             THEN Resolution("", Unknown,
                             <<"SearchDrivePath", "GetPartitionNameByUUID">>, TRUE)
             ELSE Resolution(GetPartitionNameByUUID(bdev, GetVolumeUUID(volume.Id)), OK,
                             <<"SearchDrivePath", "GetPartitionNameByUUID">>, TRUE)

\* The environments constructPartition can run in: the keys of the drive cache
\* and the outcomes of its four collaborator calls.
Environments == (SUBSET Locations) \X BOOLEAN \X BOOLEAN \X BOOLEAN \X BOOLEAN

\* The volumes a handler can hand to constructPartition.
Volumes ==
    [Id : Vols, StorageClass : StorageClasses, Location : Locations, Ephemeral : BOOLEAN]

\* Every result constructPartition can give for volume id, ephemeral or not,
\* over the classes and locations of the volume and the environments.
Resolutions ==
    [id \in Vols, eph \in BOOLEAN |->
       {constructPartition(vol, e[1], e[2], e[3], e[4], e[5]) :
          vol \in {w \in Volumes : w.Id = id /\ w.Ephemeral = eph}, e \in Environments}]

\* A slip in the release of the drive-cache lock: it stays with the request.
DrivesUnlockSkipped(r) == r

\* s.dCacheMu.Unlock() (line 425).
DrivesUnlock(r) == NoReq

\* The drive-cache lock around a call of constructPartition by r: taken and
\* released (lines 423-425) when the drive cache is read.
Resolving(r, cp) ==
    /\ cp.locked => dCacheMu = NoReq
    /\ dCacheMu' = IF cp.locked THEN DrivesUnlock(r) ELSE dCacheMu

\* No call of constructPartition on its own.
NoPart == [pc |-> "none"]

\* ------------------------------------------------------------ bookkeeping

\* The handler of request r returns: the slot is free again and the response
\* goes out.  calls are the collaborator calls of this last step; the response
\* is logged with all the calls the request made, in order.
Return(r, code, called, mutated, calls) ==
    /\ req' = [req EXCEPT ![r] = IdleReq]
    /\ resp' = [op |-> req[r].op, vol |-> req[r].vol, fields |-> "ok",
                inline |-> req[r].inline, code |-> code,
                called |-> called, mutated |-> mutated,
                calls |-> req[r].trail \o calls]

\* The handler of request r goes on to position pc.
Goto(r, pc, called, mutated) ==
    /\ req' = [req EXCEPT ![r].pc = pc, ![r].called = called, ![r].mutated = mutated]
    /\ resp' = NoResp

\* The handler of request r goes on to position pc after the collaborator
\* calls of this step.
GotoAfter(r, pc, mutated, calls) ==
    /\ req' = [req EXCEPT ![r].pc = pc, ![r].called = TRUE, ![r].mutated = mutated,
                          ![r].trail = @ \o calls]
    /\ resp' = NoResp

\* A request arrives in a free slot.
Accept(r, op, id, inline, pc) ==
    /\ req' = [req EXCEPT ![r] =
                 [pc |-> pc, op |-> op, vol |-> id, inline |-> inline,
                  called |-> FALSE, mutated |-> FALSE, hadMount |-> FALSE,
                  trail |-> <<>>]]
    /\ resp' = NoResp

\* A request is refused by the checks at the head of its handler.  fields
\* tells what the request lacked, "ok" when it lacked nothing.
Refuse(r, op, id, fields, inline, code) ==
    /\ req' = req
    /\ resp' = [op |-> op, vol |-> id, fields |-> fields, inline |-> inline,
                code |-> code,
                called |-> FALSE, mutated |-> FALSE, calls |-> <<>>]

\* ------------------------------------------------------------------- Init

Init ==
    /\ \E provisioned \in BOOLEAN :
         /\ volumesCache = [v \in Vols |->
                IF provisioned THEN CachedVolume(Created, FALSE) ELSE AbsentVolume]
         /\ records = [v \in Vols |->
                IF provisioned THEN [status |-> Created, Ephemeral |-> FALSE]
                ELSE NoRecord]
    /\ staged = [v \in Vols |-> 0]
    /\ published = [v \in Vols |-> {}]
    /\ reqMu = NoReq
    /\ req = [r \in Reqs |-> IdleReq]
    /\ resp = NoResp
    /\ dCacheMu = NoReq
    /\ part = NoPart

\* ------------------------------------------------- persistence collaborator

\* svc.CreateVolume: a new record starts in Creating; an id that already has a
\* record gets that record back.
CreateVolume(rec) ==
    IF rec.status = "None" THEN [status |-> Creating, Ephemeral |-> TRUE] ELSE rec

\* svc.WaitStatus(id, statuses...) can return nil once the record is in one of
\* the statuses.
WaitStatusReached(rec, statuses) == rec.status \in statuses

\* svc.DeleteVolume: "absent" when there is no record, "refused" while the
\* record is being created, else the record is (or already was) handed to
\* removal.
DeleteVolumeResult(rec) ==
    IF rec.status = "None" THEN "absent"
    ELSE IF rec.status = Creating THEN "refused"
    ELSE "ok"

DeleteVolume(rec) ==
    IF rec.status \in {Created, Failed} THEN [rec EXCEPT !.status = Removing] ELSE rec

\* svc.UpdateCRsAfterVolumeDeletion: a Removed record is dropped.
UpdateCRsAfterVolumeDeletion(rec) ==
    IF rec.status = Removed THEN NoRecord ELSE rec

\* The node's reconciliation of a Creating record: the volume is made and
\* cached as Created, or the record becomes Failed.
ReconcileCreate(v) ==
    /\ records[v].status = Creating
    /\ UNCHANGED <<dCacheMu, part>>
    /\ \E made \in BOOLEAN :
         /\ records' = [records EXCEPT ![v].status = IF made THEN Created ELSE Failed]
         /\ volumesCache' = IF made
                            THEN [volumesCache EXCEPT ![v] = CachedVolume(Created, TRUE)]
                            ELSE volumesCache
    /\ resp' = NoResp
    /\ UNCHANGED <<staged, published, reqMu, req>>

\* The node's reconciliation of a Removing record: the volume is removed and
\* leaves the cache, or the record and the cache entry become Failed.
ReconcileRemove(v) ==
    /\ records[v].status = Removing
    /\ UNCHANGED <<dCacheMu, part>>
    /\ \E removed \in BOOLEAN :
         /\ records' = [records EXCEPT ![v].status = IF removed THEN Removed ELSE Failed]
         /\ volumesCache' = IF removed
                            THEN [volumesCache EXCEPT ![v] = AbsentVolume]
                            ELSE setVolumeStatus(volumesCache, v, Failed)
    /\ resp' = NoResp
    /\ UNCHANGED <<staged, published, reqMu, req>>

\* --------------------------------------------------------- the handlers

\* A slip that levels the handlers: every one answers NotFound.
MissingCodeLevelled(op) == NotFound

\* The code each handler answers when the volume id is not in the volume
\* cache (lines 128, 185, 314, 475).
MissingCode(op) ==
    CASE op = "Stage" -> NotFound
      [] op = "Unstage" -> Internal
      [] op = "Publish" -> Internal
      [] op = "Unpublish" -> NotFound

\* ------------------------------------------------------- NodeStageVolume

\* Argument checks, the cache lookup and the Failed check (lines 113-133).
StageCheck(r) ==
    /\ req[r].pc = "done"
    /\ UNCHANGED <<dCacheMu, part>>
    /\ \E id \in Vols, fieldsOK \in BOOLEAN :
         /\ UNCHANGED <<volumesCache, staged, published, records, reqMu>>
         /\ IF ~fieldsOK
            THEN Refuse(r, "Stage", id, "missing", FALSE, InvalidArgument)
            ELSE IF ~getFromVolumeCache(volumesCache, id).present
            THEN Refuse(r, "Stage", id, "ok", FALSE, MissingCode("Stage"))
            ELSE IF getFromVolumeCache(volumesCache, id).CSIStatus = Failed
            THEN Refuse(r, "Stage", id, "ok", FALSE, Unknown)
            ELSE Accept(r, "Stage", id, FALSE, "stage_resolve")

\* constructPartition (lines 140-144): a resolution failure is answered
\* Internal and the status is left as it is.
StageResolve(r) ==
    /\ req[r].pc = "stage_resolve"
    /\ UNCHANGED <<volumesCache, staged, published, records, reqMu, part>>
    /\ \E eph \in BOOLEAN, cp \in UNION {Resolutions[req[r].vol, e] : e \in BOOLEAN} :
         /\ cp \in Resolutions[req[r].vol, eph]
         /\ volumesCache[req[r].vol].present => eph = volumesCache[req[r].vol].Ephemeral
         /\ Resolving(r, cp)
         /\ IF cp.code = OK
            THEN Goto(r, "stage_mount", FALSE, FALSE)
            ELSE Return(r, Internal, FALSE, FALSE, <<>>)

\* The status a first mount leaves (lines 156-160).
StageStatus(err) == IF err THEN Failed ELSE VolumeReady

\* Whether Stage takes the bare-Mount branch (line 146).
StageRemount(st) == st = VolumeReady

\* The mount: a bare Mount when the status is Ready (lines 146-153), else
\* prepareAndPerformMount and the status it leads to (lines 156-161).  v points
\* at the cache entry, so the status is read as it is now; of an entry that has
\* left the cache meanwhile the handler holds the detached copy.
StageMount(r) ==
    /\ req[r].pc = "stage_mount"
    /\ UNCHANGED <<dCacheMu, part>>
    /\ UNCHANGED <<published, records, reqMu>>
    /\ \E detached \in {Created, VolumeReady} :
       LET id == req[r].vol
           st == IF volumesCache[id].present THEN volumesCache[id].CSIStatus ELSE detached
       IN  IF StageRemount(st)
           THEN \E mountOK \in BOOLEAN :
                  /\ mountOK => staged[id] < MaxStack
                  /\ staged' = [staged EXCEPT ![id] = IF mountOK THEN @ + 1 ELSE @]
                  /\ UNCHANGED volumesCache
                  /\ Return(r, IF mountOK THEN OK ELSE Unknown, TRUE, FALSE, <<"Mount">>)
           ELSE \E createOK, probeOK, mountOK \in BOOLEAN :
                  LET m == prepareAndPerformMount(createOK, probeOK, staged[id] > 0,
                                                  mountOK, FALSE)
                  IN  /\ staged' = [staged EXCEPT ![id] = IF m.added THEN @ + 1 ELSE @]
                      /\ volumesCache' = setVolumeStatus(volumesCache, id, StageStatus(m.err))
                      /\ Return(r, IF m.err THEN Unknown ELSE OK, TRUE, TRUE, m.calls)

\* ----------------------------------------------------- NodeUnstageVolume

\* Argument checks, the cache lookup, the Failed check and the best-effort
\* clearing of the owners (lines 177-199).
UnstageCheck(r) ==
    /\ req[r].pc = "done"
    /\ UNCHANGED <<dCacheMu, part>>
    /\ \E id \in Vols, fieldsOK, clearOK \in BOOLEAN :
         /\ UNCHANGED <<staged, published, records, reqMu>>
         /\ IF ~fieldsOK
            THEN Refuse(r, "Unstage", id, "missing", FALSE, InvalidArgument)
                 /\ UNCHANGED volumesCache
            ELSE IF ~getFromVolumeCache(volumesCache, id).present
            THEN Refuse(r, "Unstage", id, "ok", FALSE, MissingCode("Unstage"))
                 /\ UNCHANGED volumesCache
            ELSE IF getFromVolumeCache(volumesCache, id).CSIStatus = Failed
            THEN Refuse(r, "Unstage", id, "ok", FALSE, Internal)
                 /\ UNCHANGED volumesCache
            ELSE /\ volumesCache' = IF clearOK THEN clearVolumeOwners(volumesCache, id)
                                    ELSE volumesCache
                 /\ req' = [req EXCEPT ![r] =
                       [pc |-> "unstage_unmount", op |-> "Unstage", vol |-> id,
                        inline |-> FALSE, called |-> FALSE, mutated |-> clearOK,
                        hadMount |-> FALSE, trail |-> <<>>]]
                 /\ resp' = NoResp

\* A slip in the status Unstage leaves: a successful unmount resets it.
UnstageStatusReset(st, code) == IF code # OK THEN Failed ELSE Created

\* The status Unstage leaves after its unmount (lines 201-206).
UnstageStatus(st, code) == IF code # OK THEN Failed ELSE st

\* The unmount of the staging path (lines 201-206).
UnstageUnmount(r) ==
    /\ req[r].pc = "unstage_unmount"
    /\ UNCHANGED <<dCacheMu, part>>
    /\ UNCHANGED <<published, records, reqMu>>
    /\ \E unmountOK \in BOOLEAN :
         LET id == req[r].vol
             code == unmount(unmountOK)
         IN  /\ staged' = [staged EXCEPT ![id] =
                             IF unmountOK /\ @ > 0 THEN @ - 1 ELSE @]
             /\ volumesCache' =
                  IF volumesCache[id].present
                  THEN setVolumeStatus(volumesCache, id,
                                       UnstageStatus(volumesCache[id].CSIStatus, code))
                  ELSE volumesCache
             /\ Return(r, code, TRUE, TRUE, <<"Unmount">>)

\* ----------------------------------------------------- NodePublishVolume

\* Argument checks and the reading of the ephemeral flag (lines 267-311).  An
\* ephemeral request goes on to createInlineVolume, whose size parsing
\* (lines 355-358) fails or not; any other request needs a staging path.
PublishCheck(r) ==
    /\ req[r].pc = "done"
    /\ UNCHANGED <<dCacheMu, part>>
    /\ UNCHANGED <<volumesCache, staged, published, records, reqMu>>
    /\ \E id \in Vols, inline \in BOOLEAN, fields \in {"ok", "missing", "nostaging", "badsize"} :
         IF fields = "missing"
         THEN Refuse(r, "Publish", id, fields, inline, InvalidArgument)
         ELSE IF inline
         THEN IF fields = "badsize"
              THEN Refuse(r, "Publish", id, fields, inline, Internal)
              ELSE Accept(r, "Publish", id, TRUE, "create_lock")
         ELSE IF fields = "nostaging"
         THEN Refuse(r, "Publish", id, fields, inline, InvalidArgument)
         ELSE Accept(r, "Publish", id, FALSE, "pub_lookup")

\* A slip in the release of the request lock: the holder keeps it.
UnlockForgotten(r) == r

\* s.reqMu.Unlock() (lines 384, 494, 509): it follows the collaborator call at
\* once, before the call's error is looked at.
Unlock(r) == NoReq

\* createInlineVolume: s.reqMu.Lock() (line 374).
CreateLock(r) ==
    /\ req[r].pc = "create_lock"
    /\ UNCHANGED <<dCacheMu, part>>
    /\ reqMu = NoReq
    /\ reqMu' = r
    /\ Goto(r, "create_call", FALSE, FALSE)
    /\ UNCHANGED <<volumesCache, staged, published, records>>

\* createInlineVolume: svc.CreateVolume and s.reqMu.Unlock() (lines 375-393).
\* A record that comes back Creating is waited for.
CreateCall(r) ==
    /\ req[r].pc = "create_call"
    /\ UNCHANGED <<dCacheMu, part>>
    /\ reqMu = r
    /\ reqMu' = Unlock(r)
    /\ UNCHANGED <<volumesCache, staged, published>>
    /\ \E createOK \in BOOLEAN :
         LET id == req[r].vol
             vol == CreateVolume(records[id])
         IN  IF ~createOK
             THEN /\ UNCHANGED records
                  /\ Return(r, Internal, TRUE, FALSE, <<"CreateVolume">>)
             ELSE /\ records' = [records EXCEPT ![id] = vol]
                  /\ GotoAfter(r, IF vol.status = Creating THEN "create_wait"
                                  ELSE "pub_lookup",
                               FALSE, <<"CreateVolume">>)

\* The statuses createInlineVolume waits for (line 390).
CreateWaitStatuses == {Failed, Created}

\* createInlineVolume: svc.WaitStatus(id, Failed, Created) (lines 389-393).
CreateWait(r) ==
    /\ req[r].pc = "create_wait"
    /\ UNCHANGED <<dCacheMu, part>>
    /\ UNCHANGED <<volumesCache, staged, published, records, reqMu>>
    /\ \E waitOK \in BOOLEAN :
         IF waitOK
         THEN /\ WaitStatusReached(records[req[r].vol], CreateWaitStatuses)
              /\ GotoAfter(r, "pub_lookup", FALSE, <<"WaitStatus">>)
         ELSE Return(r, Internal, TRUE, FALSE, <<"WaitStatus">>)

\* A slip in the status a publish mount leaves: success leaves Ready.
PublishStatusReady(err) == IF err THEN Failed ELSE VolumeReady

\* The status a publish mount leaves (lines 328-334).
PublishStatus(err) == IF err THEN Failed ELSE Published

\* A request that is not ephemeral takes the staging path as it is: nothing is
\* resolved (line 280).
Unresolved == Resolution("staging", OK, <<>>, FALSE)

\* For an ephemeral request constructPartition (lines 302-306); then the cache
\* lookup, the best-effort recording of the owner and the Failed check
\* (lines 312-325).  hasPod: the context names the workload; ownerOK: the
\* owner could be recorded.
PublishLookup(r) ==
    /\ req[r].pc = "pub_lookup"
    /\ UNCHANGED <<staged, published, records, reqMu, part>>
    /\ \E hasPod, ownerOK \in BOOLEAN,
          cp \in (IF req[r].inline THEN Resolutions[req[r].vol, TRUE] ELSE {Unresolved}) :
         LET id == req[r].vol
             v == getFromVolumeCache(volumesCache, id)
             owned == hasPod /\ ownerOK
         IN  /\ Resolving(r, cp)
             /\ IF cp.code # OK
                THEN UNCHANGED volumesCache
                     /\ Return(r, Internal, req[r].called, FALSE, <<>>)
                ELSE IF ~v.present
                THEN UNCHANGED volumesCache
                     /\ Return(r, MissingCode("Publish"), req[r].called, FALSE, <<>>)
                ELSE /\ volumesCache' = IF owned
                                        THEN addVolumeOwner(volumesCache, id, r)
                                        ELSE volumesCache
                     /\ IF v.CSIStatus = Failed
                        THEN Return(r, Unknown, req[r].called, owned, <<>>)
                        ELSE Goto(r, "pub_mount", req[r].called, owned)

\* prepareAndPerformMount on the target path, bind unless ephemeral, and the
\* status it leads to (lines 326-335).
PublishMount(r) ==
    /\ req[r].pc = "pub_mount"
    /\ UNCHANGED <<staged, records, reqMu, dCacheMu, part>>
    /\ \E createOK, probeOK, mountOK \in BOOLEAN :
         LET id == req[r].vol
             m == prepareAndPerformMount(createOK, probeOK, r \in published[id],
                                         mountOK, ~req[r].inline)
         IN  /\ published' = [published EXCEPT ![id] =
                                IF m.added THEN @ \cup {r} ELSE @]
             /\ volumesCache' = setVolumeStatus(volumesCache, id, PublishStatus(m.err))
             /\ Return(r, IF m.err THEN Unknown ELSE OK, TRUE, TRUE, m.calls)

\* --------------------------------------------------- NodeUnpublishVolume

\* Argument checks and the cache lookup (lines 466-476).
UnpublishCheck(r) ==
    /\ req[r].pc = "done"
    /\ UNCHANGED <<dCacheMu, part>>
    /\ \E id \in Vols, fieldsOK \in BOOLEAN :
         /\ UNCHANGED <<volumesCache, staged, published, records, reqMu>>
         /\ IF ~fieldsOK
            THEN Refuse(r, "Unpublish", id, "missing", FALSE, InvalidArgument)
            ELSE IF ~getFromVolumeCache(volumesCache, id).present
            THEN Refuse(r, "Unpublish", id, "ok", FALSE, MissingCode("Unpublish"))
            ELSE Accept(r, "Unpublish", id, FALSE, "unpub_unmount")

\* The unmount of the target path (lines 477-480).  hadMount remembers whether
\* the target path held a mount that this call took down.
UnpublishUnmount(r) ==
    /\ req[r].pc = "unpub_unmount"
    /\ UNCHANGED <<dCacheMu, part>>
    /\ UNCHANGED <<staged, records, reqMu>>
    /\ \E unmountOK \in BOOLEAN :
         LET id == req[r].vol
             code == unmount(unmountOK)
         IN  IF code # OK
             THEN /\ volumesCache' = setVolumeStatus(volumesCache, id, Failed)
                  /\ UNCHANGED published
                  /\ Return(r, code, TRUE, TRUE, <<"Unmount">>)
             ELSE /\ published' = [published EXCEPT ![id] = @ \ {r}]
                  /\ UNCHANGED volumesCache
                  /\ req' = [req EXCEPT ![r].pc = "unpub_decide", ![r].called = TRUE,
                                        ![r].hadMount = r \in published[id],
                                        ![r].trail = @ \o <<"Unmount">>]
                  /\ resp' = NoResp

\* Whether Unpublish keeps the status Published (line 482).
KeepsPublished(owners) == Len(owners) > 1

\* After the unmount (lines 481-491, 511): more than one owner ends the call;
\* else the status is set to Ready, the entry is looked up again, and an
\* ephemeral volume goes on to its deletion.  v points at the cache entry, so
\* Owners is read as it is now; of an entry that has left the cache meanwhile
\* the handler still holds the detached copy, with whatever owners it had.
UnpublishDecide(r) ==
    /\ req[r].pc = "unpub_decide"
    /\ UNCHANGED <<dCacheMu, part>>
    /\ UNCHANGED <<staged, published, records, reqMu>>
    /\ LET id == req[r].vol
           v == volumesCache[id]
       IN  \E detached \in {<<>>, <<"podA", "podB">>} :
             IF KeepsPublished(IF v.present THEN v.Owners ELSE detached)
             THEN UNCHANGED volumesCache
                  /\ Return(r, OK, TRUE, FALSE, <<>>)
             ELSE /\ volumesCache' = setVolumeStatus(volumesCache, id, VolumeReady)
                  /\ IF ~getFromVolumeCache(volumesCache', id).present
                     THEN Return(r, InvalidArgument, TRUE, FALSE, <<>>)
                     ELSE IF getFromVolumeCache(volumesCache', id).Ephemeral
                     THEN Goto(r, "del_lock", TRUE, TRUE)
                     ELSE Return(r, OK, TRUE, TRUE, <<>>)

\* s.reqMu.Lock() before DeleteVolume (line 492).
DeleteLock(r) ==
    /\ req[r].pc = "del_lock"
    /\ UNCHANGED <<dCacheMu, part>>
    /\ reqMu = NoReq
    /\ reqMu' = r
    /\ Goto(r, "del_call", TRUE, TRUE)
    /\ UNCHANGED <<volumesCache, staged, published, records>>

\* A slip in the reading of the delete error: no error counts as not-found.
IsNotFoundNever(res) == FALSE

\* k8sError.IsNotFound(err) on the error of DeleteVolume (line 496).
IsNotFound(res) == res = "absent"

\* svc.DeleteVolume and s.reqMu.Unlock() (lines 493-502): an absent record is
\* success, any other error is handed back as it is.
DeleteCall(r) ==
    /\ req[r].pc = "del_call"
    /\ UNCHANGED <<dCacheMu, part>>
    /\ reqMu = r
    /\ reqMu' = Unlock(r)
    /\ UNCHANGED <<volumesCache, staged, published>>
    /\ \E deleteOK \in BOOLEAN :
         LET id == req[r].vol
             res == DeleteVolumeResult(records[id])
         IN  IF IsNotFound(res)
             THEN UNCHANGED records /\ Return(r, OK, TRUE, TRUE, <<"DeleteVolume">>)
             ELSE IF res = "refused" \/ ~deleteOK
             THEN UNCHANGED records /\ Return(r, Unknown, TRUE, TRUE, <<"DeleteVolume">>)
             ELSE /\ records' = [records EXCEPT ![id] = DeleteVolume(@)]
                  /\ GotoAfter(r, "del_wait", TRUE, <<"DeleteVolume">>)

\* A slip in the statuses waited for: the wait also ends on Removing.
DeleteWaitStatusesEarly == {Failed, Removed, Removing}

\* The statuses Unpublish waits for after DeleteVolume (line 504).
DeleteWaitStatuses == {Failed, Removed}

\* svc.WaitStatus(id, Failed, Removed) (lines 504-506).
DeleteWait(r) ==
    /\ req[r].pc = "del_wait"
    /\ UNCHANGED <<dCacheMu, part>>
    /\ UNCHANGED <<volumesCache, staged, published, records, reqMu>>
    /\ \E waitOK \in BOOLEAN :
         IF waitOK
         THEN /\ WaitStatusReached(records[req[r].vol], DeleteWaitStatuses)
              /\ GotoAfter(r, "cleanup_lock", TRUE, <<"WaitStatus">>)
         ELSE Return(r, Internal, TRUE, TRUE, <<"WaitStatus">>)

\* s.reqMu.Lock() before the cleanup (line 507).
CleanupLock(r) ==
    /\ req[r].pc = "cleanup_lock"
    /\ UNCHANGED <<dCacheMu, part>>
    /\ reqMu = NoReq
    /\ reqMu' = r
    /\ Goto(r, "cleanup_call", TRUE, TRUE)
    /\ UNCHANGED <<volumesCache, staged, published, records>>

\* svc.UpdateCRsAfterVolumeDeletion and s.reqMu.Unlock() (lines 508-511).
CleanupCall(r) ==
    /\ req[r].pc = "cleanup_call"
    /\ UNCHANGED <<dCacheMu, part>>
    /\ reqMu = r
    /\ reqMu' = Unlock(r)
    /\ records' = [records EXCEPT ![req[r].vol] = UpdateCRsAfterVolumeDeletion(@)]
    /\ UNCHANGED <<volumesCache, staged, published>>
    /\ Return(r, OK, TRUE, TRUE, <<"UpdateCRsAfterVolumeDeletion">>)

\* ------------------------------------------------------------ the service

\* One step of the handler serving request r.
HandlerStep(r) ==
    \/ StageCheck(r)
    \/ StageResolve(r)
    \/ StageMount(r)
    \/ UnstageCheck(r)
    \/ UnstageUnmount(r)
    \/ PublishCheck(r)
    \/ CreateLock(r)
    \/ CreateCall(r)
    \/ CreateWait(r)
    \/ PublishLookup(r)
    \/ PublishMount(r)
    \/ UnpublishCheck(r)
    \/ UnpublishUnmount(r)
    \/ UnpublishDecide(r)
    \/ DeleteLock(r)
    \/ DeleteCall(r)
    \/ DeleteWait(r)
    \/ CleanupLock(r)
    \/ CleanupCall(r)

\* One step of the node's reconciliation of the records.
Reconcile(v) ==
    \/ ReconcileCreate(v)
    \/ ReconcileRemove(v)

\* Requests are handled concurrently.
Next ==
    \/ \E r \in Reqs : HandlerStep(r)
    \/ \E v \in Vols : Reconcile(v)

Spec == Init /\ [][Next]_vars

\* No request but r is in flight.
Alone(r) == \A q \in Reqs \ {r} : req[q].pc = "done"

\* The orchestrator makes one call at a time: a request arrives only when no
\* other is in flight.
NextSerial ==
    \/ \E r \in Reqs : Alone(r) /\ StageCheck(r)
    \/ \E r \in Reqs : Alone(r) /\ StageResolve(r)
    \/ \E r \in Reqs : Alone(r) /\ StageMount(r)
    \/ \E r \in Reqs : Alone(r) /\ UnstageCheck(r)
    \/ \E r \in Reqs : Alone(r) /\ UnstageUnmount(r)
    \/ \E r \in Reqs : Alone(r) /\ PublishCheck(r)
    \/ \E r \in Reqs : Alone(r) /\ CreateLock(r)
    \/ \E r \in Reqs : Alone(r) /\ CreateCall(r)
    \/ \E r \in Reqs : Alone(r) /\ CreateWait(r)
    \/ \E r \in Reqs : Alone(r) /\ PublishLookup(r)
    \/ \E r \in Reqs : Alone(r) /\ PublishMount(r)
    \/ \E r \in Reqs : Alone(r) /\ UnpublishCheck(r)
    \/ \E r \in Reqs : Alone(r) /\ UnpublishUnmount(r)
    \/ \E r \in Reqs : Alone(r) /\ UnpublishDecide(r)
    \/ \E r \in Reqs : Alone(r) /\ DeleteLock(r)
    \/ \E r \in Reqs : Alone(r) /\ DeleteCall(r)
    \/ \E r \in Reqs : Alone(r) /\ DeleteWait(r)
    \/ \E r \in Reqs : Alone(r) /\ CleanupLock(r)
    \/ \E r \in Reqs : Alone(r) /\ CleanupCall(r)
    \/ \E v \in Vols : ReconcileCreate(v)
    \/ \E v \in Vols : ReconcileRemove(v)

SpecSerial == Init /\ [][NextSerial]_vars

\* ------------------------------------------- the service under fair scheduling

\* The steps that take the request lock (lines 374, 492, 507).
Locking(r) ==
    \/ CreateLock(r)
    \/ DeleteLock(r)
    \/ CleanupLock(r)

\* The steps of a request in flight that wait for no lock.
Running(r) ==
    \/ StageResolve(r)
    \/ StageMount(r)
    \/ UnstageUnmount(r)
    \/ CreateCall(r)
    \/ CreateWait(r)
    \/ PublishLookup(r)
    \/ PublishMount(r)
    \/ UnpublishUnmount(r)
    \/ UnpublishDecide(r)
    \/ DeleteCall(r)
    \/ DeleteWait(r)
    \/ CleanupCall(r)

\* The scheduler runs every goroutine that can run, every collaborator call
\* comes back, and sync.Mutex hands the lock to a goroutine that keeps waiting
\* for it (starvation mode), so that a waiter is not overtaken for ever.
Fairness == \A r \in Reqs : WF_vars(Running(r)) /\ SF_vars(Locking(r))

\* Publish and Unpublish requests, the two that take the request lock, handled
\* concurrently.
NextPublish ==
    \/ \E r \in Reqs : PublishCheck(r)
    \/ \E r \in Reqs : CreateLock(r)
    \/ \E r \in Reqs : CreateCall(r)
    \/ \E r \in Reqs : CreateWait(r)
    \/ \E r \in Reqs : PublishLookup(r)
    \/ \E r \in Reqs : PublishMount(r)
    \/ \E r \in Reqs : UnpublishCheck(r)
    \/ \E r \in Reqs : UnpublishUnmount(r)
    \/ \E r \in Reqs : UnpublishDecide(r)
    \/ \E r \in Reqs : DeleteLock(r)
    \/ \E r \in Reqs : DeleteCall(r)
    \/ \E r \in Reqs : DeleteWait(r)
    \/ \E r \in Reqs : CleanupLock(r)
    \/ \E r \in Reqs : CleanupCall(r)
    \/ \E v \in Vols : ReconcileCreate(v)
    \/ \E v \in Vols : ReconcileRemove(v)

SpecFair == Init /\ [][NextPublish]_vars /\ Fairness

\* ------------------------------------------- constructPartition on its own

\* The service at rest with one volume provisioned and a call of
\* constructPartition about to be made on some volume in some drive cache.
InitResolve ==
    /\ volumesCache = [v \in Vols |-> CachedVolume(Created, FALSE)]
    /\ records = [v \in Vols |-> [status |-> Created, Ephemeral |-> FALSE]]
    /\ staged = [v \in Vols |-> 0]
    /\ published = [v \in Vols |-> {}]
    /\ reqMu = NoReq
    /\ req = [r \in Reqs |-> IdleReq]
    /\ resp = NoResp
    /\ dCacheMu = NoReq
    /\ \E vol \in Volumes, drives \in SUBSET Locations :
         part = [pc |-> "call", volume |-> vol, drives |-> drives]

\* The call is made and returns.
ResolvePartition ==
    /\ part.pc = "call"
    /\ \E vgOK, searchOK, uuidOK, nameOK \in BOOLEAN :
         LET cp == constructPartition(part.volume, part.drives,
                                      vgOK, searchOK, uuidOK, nameOK)
         IN  /\ part' = [pc |-> "returned", volume |-> part.volume,
                         drives |-> part.drives, vgOK |-> vgOK, result |-> cp]
             /\ cp.locked => dCacheMu = NoReq
             /\ dCacheMu' = IF cp.locked THEN DrivesUnlock("part") ELSE dCacheMu
    /\ UNCHANGED <<volumesCache, staged, published, records, reqMu, req, resp>>

NextResolve == ResolvePartition

SpecResolve == InitResolve /\ [][NextResolve]_vars

\* ------------------------------------------------------------- properties

\* A request for volume v is in flight.
InFlight(v) == \E r \in Reqs : req[r].pc # "done" /\ req[r].vol = v

\* Request r takes the step that leaves position pc.
Leaves(r, pc) == req[r].pc = pc /\ req'[r].pc # pc

\* Request r takes the step at position pc and returns with it.
ReturnsFrom(r, pc) == req[r].pc = pc /\ req'[r].pc = "done"

\* A request is refused by the checks at the head of its handler in this step.
Refused == req' = req /\ resp' # NoResp

\* C1: Failed is sticky: once the cached status of a volume is Failed, no step
\* of any handler changes it to another status.
C1_FailedSticky ==
    [][\A v \in Vols :
         (volumesCache[v].present /\ volumesCache[v].CSIStatus = Failed
            /\ volumesCache'[v].present)
         => volumesCache'[v].CSIStatus = Failed]_vars

\* C2: with Owners = [a, b] and status Published, an Unpublish whose unmount
\* succeeded leaves one owner and the status Published; with one owner left it
\* sets the status to Ready.
C2_UnpublishDropsOwner ==
    [][\A r \in Reqs :
         LET v == volumesCache[req[r].vol]
             w == volumesCache'[req[r].vol]
         IN  (Leaves(r, "unpub_decide") /\ v.present /\ v.CSIStatus = Published)
             => /\ Len(v.Owners) = 2 => (Len(w.Owners) = 1 /\ w.CSIStatus = Published)
                /\ Len(v.Owners) = 1 => w.CSIStatus = VolumeReady]_vars

\* C3: with no request for the volume in flight, the number of owners is the
\* number of workloads that hold a published mount of the volume.
C3_OwnersCountMounts ==
    \A v \in Vols :
      (volumesCache[v].present /\ ~InFlight(v))
      => Len(volumesCache[v].Owners) = Cardinality(published[v])

\* C4: Stage on a volume that is Ready and mounted on its staging path is a
\* no-op: the status stays Ready and no second mount is stacked on the staging
\* path.  Stated of the calls that return success; a call that fails is no
\* no-op either.
C4_StageReadyNoop ==
    [][\A r \in Reqs :
         LET id == req[r].vol
         IN  (Leaves(r, "stage_mount") /\ volumesCache[id].present
                /\ volumesCache[id].CSIStatus = VolumeReady /\ staged[id] >= 1
                /\ resp'.code = OK)
             => /\ volumesCache'[id].CSIStatus = VolumeReady
                /\ staged'[id] = staged[id]]_vars

\* The positions of a handler after it has looked the volume up.
AfterLookup ==
    {"stage_resolve", "stage_mount", "unstage_unmount", "pub_mount", "unpub_unmount",
     "unpub_decide", "del_lock", "del_call", "del_wait", "cleanup_lock", "cleanup_call"}

\* C5: a handler that fails after it has looked the volume up leaves the
\* cached status Failed when it returns.
C5_FailureMarksFailed ==
    [][\A r \in Reqs :
         LET id == req[r].vol
         IN  (req[r].pc \in AfterLookup /\ req'[r].pc = "done" /\ resp'.code # OK
                /\ volumesCache'[id].present)
             => volumesCache'[id].CSIStatus = Failed]_vars

\* C6: with no request for the volume in flight, an ephemeral volume has a
\* record in the persistence collaborator only while a workload holds a
\* published mount of it.
C6_EphemeralRecordWindow ==
    \A v \in Vols :
      (~InFlight(v) /\ records[v].Ephemeral /\ records[v].status # "None")
      => published[v] # {}

C8_InvalidArgumentMutatesNothing ==
    resp.code = InvalidArgument => (~resp.called /\ ~resp.mutated)

\* C9: with the required fields present and the volume id not in the cache,
\* Stage answers not-found, Unstage internal, a non-ephemeral Publish internal
\* and Unpublish not-found; nothing is mounted or unmounted and the cache is
\* as it was.
C9_MissingVolume ==
    [][/\ (Refused /\ resp'.fields = "ok" /\ ~volumesCache[resp'.vol].present)
          => /\ resp'.op = "Stage" => resp'.code = NotFound
             /\ resp'.op = "Unstage" => resp'.code = Internal
             /\ resp'.op = "Unpublish" => resp'.code = NotFound
             /\ resp'.op # "Publish"
             /\ ~resp'.called /\ ~resp'.mutated
             /\ UNCHANGED <<volumesCache, staged, published, records>>
       /\ \A r \in Reqs :
            (ReturnsFrom(r, "pub_lookup") /\ ~req[r].inline
               /\ ~volumesCache[req[r].vol].present)
            => /\ resp'.code = Internal
               /\ ~resp'.called /\ ~resp'.mutated
               /\ UNCHANGED <<volumesCache, staged, published, records>>]_vars

\* C9 witness: an Unstage with its fields present was answered internal for a
\* volume id that is not in the cache.
C9_Witness ==
    /\ resp.op = "Unstage" /\ resp.fields = "ok" /\ resp.code = Internal
    /\ ~volumesCache[resp.vol].present
    /\ ~resp.called

\* C10: Stage on a cached volume that is neither Ready nor Failed: when the
\* resolution and the first mount succeed it returns success and the status
\* becomes Ready; when the resolution or the mount fails it returns a failure
\* and the status becomes Failed.  Stage on a Failed volume returns a failure
\* and neither resolves nor mounts.
C10_StageOutcome ==
    [][/\ \A r \in Reqs :
            LET id == req[r].vol
                v == volumesCache[id]
                w == volumesCache'[id]
            IN  /\ (Leaves(r, "stage_resolve") /\ v.present
                      /\ v.CSIStatus \notin {VolumeReady, Failed} /\ req'[r].pc = "done")
                   => (resp'.code # OK /\ w.CSIStatus = Failed)
                /\ (Leaves(r, "stage_mount") /\ v.present
                      /\ v.CSIStatus \notin {VolumeReady, Failed})
                   => \/ resp'.code = OK /\ w.CSIStatus = VolumeReady
                      \/ resp'.code # OK /\ w.CSIStatus = Failed
       /\ (Refused /\ resp'.op = "Stage" /\ resp'.fields = "ok"
             /\ volumesCache[resp'.vol].present
             /\ volumesCache[resp'.vol].CSIStatus = Failed)
          => (resp'.code # OK /\ ~resp'.called)]_vars

\* C11: Publish on a cached volume that passed the Failed check issues its
\* mount with the bind flag exactly when the request is not ephemeral; when the
\* mount succeeds the status becomes Published and success is returned, when it
\* fails the status becomes Failed and a failure is returned.  Publish on a
\* Failed volume returns a failure and attempts no mount.
C11_PublishMounts ==
    [][\A r \in Reqs :
         LET id == req[r].vol
             v == volumesCache[id]
             w == volumesCache'[id]
         IN  /\ (Leaves(r, "pub_mount") /\ v.present)
                => /\ ContainsString(resp'.calls, "Mount--bind") => ~req[r].inline
                   /\ ContainsString(resp'.calls, "Mount") => req[r].inline
                   /\ \/ /\ resp'.code = OK
                         /\ w.CSIStatus = Published
                         /\ r \in published'[id]
                      \/ /\ resp'.code # OK
                         /\ w.CSIStatus = Failed
                         /\ published'[id] = published[id]
             /\ (ReturnsFrom(r, "pub_lookup") /\ v.present /\ v.CSIStatus = Failed)
                => /\ resp'.code # OK
                   /\ ~ContainsString(resp'.calls, "Mount")
                   /\ ~ContainsString(resp'.calls, "Mount--bind")
                   /\ ~ContainsString(resp'.calls, "CreateTargetPath")
                   /\ published' = published]_vars

\* C11 witness: a non-ephemeral Publish has issued a bind mount, the status is
\* Published and success was returned.
C11_Witness ==
    /\ resp.op = "Publish" /\ ~resp.inline /\ resp.code = OK
    /\ ContainsString(resp.calls, "Mount--bind")
    /\ volumesCache[resp.vol].present
    /\ volumesCache[resp.vol].CSIStatus = Published

\* C12: Unstage changes the status only to Failed and only when its unmount
\* fails: on a Failed volume it answers internal and attempts no unmount; a
\* successful unmount leaves the status as it was; a failed unmount leaves it
\* Failed and the error is returned.
C12_UnstageStatusFrame ==
    [][/\ \A r \in Reqs :
            LET id == req'[r].vol
            IN  (req[r].pc = "done" /\ req'[r].pc = "unstage_unmount")
                => volumesCache'[id].CSIStatus = volumesCache[id].CSIStatus
       /\ \A r \in Reqs :
            LET id == req[r].vol
                v == volumesCache[id]
                w == volumesCache'[id]
            IN  (Leaves(r, "unstage_unmount") /\ v.present)
                => \/ resp'.code = OK /\ w.CSIStatus = v.CSIStatus
                   \/ resp'.code = Internal /\ w.CSIStatus = Failed
                        /\ staged'[id] = staged[id]
       /\ (Refused /\ resp'.op = "Unstage" /\ resp'.fields = "ok"
             /\ volumesCache[resp'.vol].present
             /\ volumesCache[resp'.vol].CSIStatus = Failed)
          => /\ resp'.code = Internal
             /\ ~resp'.called
             /\ UNCHANGED <<volumesCache, staged>>]_vars

\* C12 witness: an Unstage of a Ready volume has unmounted the staging path
\* and returned success, and the status is still Ready.
C12_Witness ==
    /\ resp.op = "Unstage" /\ resp.code = OK /\ resp.called
    /\ volumesCache[resp.vol].present
    /\ volumesCache[resp.vol].CSIStatus = VolumeReady
    /\ staged[resp.vol] = 0

\* The collaborator calls of a complete ephemeral Unpublish, in order.
FullTeardown ==
    <<"Unmount", "DeleteVolume", "WaitStatus", "UpdateCRsAfterVolumeDeletion">>

\* The positions of an Unpublish from the delete to the cleanup.
Deleting == {"del_lock", "del_call", "del_wait", "cleanup_lock", "cleanup_call"}

\* C13: an Unpublish of an Ephemeral volume for the last owner whose unmount
\* succeeded goes on to the delete; when it returns success it has called
\* delete once, then the wait, then the cleanup, in that order, or delete
\* reported the record absent; a delete that reports the record absent ends
\* the call with success, and so does the cleanup.
C13_EphemeralTeardownOrder ==
    [][\A r \in Reqs :
         LET id == req[r].vol
             v == volumesCache[id]
             absent == DeleteVolumeResult(records[id]) = "absent"
         IN  /\ (Leaves(r, "unpub_decide") /\ v.present /\ v.Ephemeral
                   /\ Len(v.Owners) <= 1)
                => (req'[r].pc = "del_lock" /\ req'[r].trail = <<"Unmount">>)
             /\ (req[r].pc \in Deleting /\ req'[r].pc = "done" /\ resp'.code = OK)
                => \/ resp'.calls = FullTeardown
                   \/ resp'.calls = <<"Unmount", "DeleteVolume">> /\ absent
             /\ (Leaves(r, "del_call") /\ absent)
                => (req'[r].pc = "done" /\ resp'.code = OK)
             /\ Leaves(r, "cleanup_call")
                => (req'[r].pc = "done" /\ resp'.code = OK)]_vars

\* C13 witness: an Unpublish has returned success after the unmount, one
\* delete, the wait and the cleanup.
C13_Witness ==
    /\ resp.op = "Unpublish" /\ resp.code = OK
    /\ resp.calls = FullTeardown

\* C14: in an Unpublish of an Ephemeral volume, a failure of the delete (other
\* than the record being absent) or of the wait is returned to the caller as
\* an internal failure.
C14_CollaboratorErrorsInternal ==
    [][\A r \in Reqs :
         (req[r].pc \in {"del_call", "del_wait"} /\ req'[r].pc = "done"
            /\ resp'.code # OK)
         => resp'.code = Internal]_vars

\* The calls to the drive-query collaborator.
DriveQueries == {"SearchDrivePath", "GetPartitionUUID", "GetPartitionNameByUUID"}

\* C15: constructPartition on a volume of a plain-drive class whose Location
\* is not a key of the drive cache returns a failure and the empty path and
\* makes no call to the drive-query collaborator.
C15_UnknownDriveFails ==
    (part.pc = "returned" /\ part.volume.StorageClass \in {"HDD", "SSD"}
       /\ part.volume.Location \notin part.drives)
    => /\ part.result.code # OK
       /\ part.result.path = ""
       /\ \A i \in 1..Len(part.result.calls) : part.result.calls[i] \notin DriveQueries

\* C15 witness: constructPartition has returned for a plain-drive volume whose
\* Location is not in a drive cache that holds another drive.
C15_Witness ==
    /\ part.pc = "returned"
    /\ part.volume.StorageClass = "HDD"
    /\ part.volume.Location \notin part.drives
    /\ part.drives # {}

\* C16: constructPartition on a group-backed volume calls the group-name
\* translation once for the class that needs it and never for the other, does
\* not read the drive cache, and returns the path made of the translated or
\* direct group name and the volume id; when the translation fails it returns
\* a failure and no path.
C16_GroupResolution ==
    (part.pc = "returned" /\ part.volume.StorageClass \in {"HDDLVG", "SSDLVG"})
    => LET vol == part.volume
           res == part.result
           indirect == vol.StorageClass = "SSDLVG"
           group == IF indirect THEN GetVGNameByLVGCRName(vol.Location)
                    ELSE vol.Location
       IN  /\ res.calls = IF indirect THEN <<"GetVGNameByLVGCRName">> ELSE <<>>
           /\ ~res.locked
           /\ IF indirect /\ ~part.vgOK
              THEN res.code # OK /\ res.path = ""
              ELSE res.code = OK /\ res.path = <<"/dev", group, vol.Id>>

\* C16 witness: constructPartition has returned a path for a volume of the
\* class whose group name is translated.
C16_Witness ==
    /\ part.pc = "returned"
    /\ part.volume.StorageClass = "SSDLVG"
    /\ part.result.code = OK
    /\ part.result.path = <<"/dev", GetVGNameByLVGCRName(part.volume.Location), "v1">>

\* The positions at which a request is in a call of the persistence
\* collaborator: create, the wait after it, delete, the wait after it, cleanup.
InCollaborator == {"create_call", "create_wait", "del_call", "del_wait", "cleanup_call"}

\* C17: a request that is in a call of the persistence collaborator holds the
\* request lock, so that no two requests are in such a call at once.
C17_CollaboratorUnderLock ==
    \A r \in Reqs : req[r].pc \in InCollaborator => reqMu = r

\* The positions at which a request is in prepareAndPerformMount, in a bare
\* Mount or in unmount.
Mounting == {"stage_mount", "unstage_unmount", "pub_mount", "unpub_unmount"}

\* C18: a request that is mounting, unmounting, creating or deleting a target
\* path or probing a mount point holds neither the request lock nor the
\* drive-cache lock.
C18_MountOutsideLocks ==
    \A r \in Reqs : req[r].pc \in Mounting => (reqMu # r /\ dCacheMu # r)

\* C18 witness: an ephemeral Publish, which took and released both locks, is
\* at its mount while another request holds the request lock.
C18_Witness ==
    \E r \in Reqs :
      /\ req[r].pc = "pub_mount" /\ req[r].inline
      /\ reqMu \in Reqs \ {r}

\* The calls the step of request r made, after those of its earlier steps.
StepCalls(r) == SubSeq(resp'.calls, Len(req[r].trail) + 1, Len(resp'.calls))

\* C19: prepareAndPerformMount calls create-target-path, then the probe, then
\* the mount: the mount is issued only when the probe found no mount point
\* (a mount point found is success with no mount call); when the probe or the
\* mount fails the target path is deleted before the error is returned; when
\* create-target-path fails nothing else is called.
C19_PrepareAndMountOrder ==
    [][\A r \in Reqs :
         LET id == req[r].vol
             publish == req[r].pc = "pub_mount"
             stage == /\ req[r].pc = "stage_mount"
                      /\ volumesCache[id].present
                      /\ volumesCache[id].CSIStatus # VolumeReady
             mounted == IF publish THEN r \in published[id] ELSE staged[id] > 0
             added == IF publish THEN r \in published'[id] /\ ~mounted
                      ELSE staged'[id] = staged[id] + 1
             mnt == IF publish /\ ~req[r].inline THEN "Mount--bind" ELSE "Mount"
             c == StepCalls(r)
             failed == resp'.code # OK
         IN  ((publish \/ stage) /\ req'[r].pc = "done")
             => \/ c = <<"CreateTargetPath">> /\ failed /\ ~added
                \/ c = <<"CreateTargetPath", "IsMountPoint", "DeleteTargetPath">>
                     /\ failed /\ ~added
                \/ c = <<"CreateTargetPath", "IsMountPoint">>
                     /\ ~failed /\ mounted /\ ~added
                \/ c = <<"CreateTargetPath", "IsMountPoint", mnt, "DeleteTargetPath">>
                     /\ failed /\ ~mounted /\ ~added
                \/ c = <<"CreateTargetPath", "IsMountPoint", mnt>>
                     /\ ~failed /\ ~mounted /\ added]_vars

\* C19 witness: a Publish whose mount failed has deleted the target path it
\* had created and returned the error.
C19_Witness ==
    /\ resp.op = "Publish" /\ resp.code # OK
    /\ resp.calls = <<"CreateTargetPath", "IsMountPoint", "Mount--bind", "DeleteTargetPath">>

\* C20: an Unpublish that took down the mount of its workload does not demote
\* a Published volume to Ready while another workload holds a published mount
\* of it.
C20_PublishedWhileMounted ==
    [][\A r \in Reqs :
         LET id == req[r].vol
             v == volumesCache[id]
             w == volumesCache'[id]
         IN  (Leaves(r, "unpub_decide") /\ req[r].hadMount
                /\ v.present /\ v.CSIStatus = Published
                /\ published[id] \ {r} # {})
             => w.CSIStatus = Published]_vars

\* C22: the status of a volume that is not ephemeral becomes Published only
\* from Ready or Published: a Publish on a cached volume that is Creating or
\* Created does not make it Published.
C22_PublishedOnlyFromReady ==
    [][\A v \in Vols :
         (volumesCache[v].present /\ ~volumesCache[v].Ephemeral
            /\ volumesCache'[v].present /\ volumesCache'[v].CSIStatus = Published)
         => volumesCache[v].CSIStatus \in {VolumeReady, Published}]_vars

\* The positions at which a request waits for the request lock.
AwaitsLock == {"create_lock", "del_lock", "cleanup_lock"}

\* The positions at which a request holds the request lock: between a Lock and
\* the Unlock that follows the collaborator call.
HoldsLock == {"create_call", "del_call", "cleanup_call"}

\* C21: a request holds the request lock only around one collaborator call,
\* never when it has returned and never in a wait for a status; under fair
\* scheduling every request that waits for the lock gets it and every request
\* in flight returns.
C21_LockReleasedAndProgress ==
    /\ [](\A r \in Reqs : reqMu = r => req[r].pc \in HoldsLock)
    /\ \A r \in Reqs : (req[r].pc \in AwaitsLock) ~> (reqMu = r)
    /\ \A r \in Reqs : (req[r].pc # "done") ~> (req[r].pc = "done")

\* C21: a request waits for the lock while the other holds it.
C21_Witness ==
    \E r \in Reqs : req[r].pc \in AwaitsLock /\ reqMu \in Reqs \ {r}

====
